---- MODULE Spec2Model ----
(***************************************************************************)
(* CERVSUS decoder (src/cervsus_decoder.py, class CervsusSolver).          *)
(*                                                                         *)
(* Text is a sequence of Unicode code points (Python str).  The helpers    *)
(* below give the Python built-ins the decoder relies on (replace, lower,  *)
(* upper, split, join, strip, endswith, max, unhexlify, decode) their      *)
(* Python meaning on the Latin-1 range.                                    *)
(***************************************************************************)
EXTENDS Integers, Sequences, FiniteSets, TLC

(***************************************************************************)
(* Source literals.                                                        *)
(***************************************************************************)
\* the ASCII digits (from code point 48), capitals (from 65) and small letters (from 97)
Digitos == <<"0", "1", "2", "3", "4", "5", "6", "7", "8", "9">>

Mayusculas ==
  <<"A", "B", "C", "D", "E", "F", "G", "H", "I", "J", "K", "L", "M",
    "N", "O", "P", "Q", "R", "S", "T", "U", "V", "W", "X", "Y", "Z">>

Minusculas ==
  <<"a", "b", "c", "d", "e", "f", "g", "h", "i", "j", "k", "l", "m",
    "n", "o", "p", "q", "r", "s", "t", "u", "v", "w", "x", "y", "z">>

Indice(tabla, ch) == CHOOSE i \in 1..Len(tabla) : tabla[i] = ch

\* code point of a one-character literal; "o'" stands for o with acute accent
Ord(ch) ==
  IF ch = " " THEN 32
  ELSE IF ch = "o'" THEN 243
  ELSE IF \E i \in 1..10 : Digitos[i] = ch THEN 47 + Indice(Digitos, ch)
  ELSE IF \E i \in 1..26 : Mayusculas[i] = ch THEN 64 + Indice(Mayusculas, ch)
  ELSE 96 + Indice(Minusculas, ch)

\* a string literal, written as a tuple of characters, as code points
Cod(s) == [i \in 1..Len(s) |-> Ord(s[i])]

\* self.vocales = "aeiou"
vocales == Cod(<<"a", "e", "i", "o", "u">>)

\* self.neutro, MIDDLE DOT U+00B7
neutro == 183

\* Python None, kept apart from every str: no text holds a negative code point
None == <<-1>>

(***************************************************************************)
(* Python built-ins.                                                       *)
(***************************************************************************)
Min(a, b) == IF a <= b THEN a ELSE b

InStr(c, s) == \E i \in 1..Len(s) : s[i] = c

\* s.replace(ch, "") for a single character ch
Quitar(s, ch) == SelectSeq(s, LAMBDA c : c # ch)

\* s.startswith(a, i) with 1-based i
EmpiezaEn(s, a, i) ==
  /\ i + Len(a) - 1 <= Len(s)
  /\ \A k \in 1..Len(a) : s[i + k - 1] = a[k]

\* s.endswith(a)
endswith(s, a) == Len(a) <= Len(s) /\ EmpiezaEn(s, a, Len(s) - Len(a) + 1)

\* a in s, for a non-empty a
Contiene(s, a) == \E i \in 1..Len(s) : EmpiezaEn(s, a, i)

\* s.replace(a, b): non-overlapping occurrences, left to right (a non-empty)
RECURSIVE ReplaceDesde(_, _, _, _)
ReplaceDesde(s, a, b, i) ==
  IF i > Len(s) THEN <<>>
  ELSE IF EmpiezaEn(s, a, i) THEN b \o ReplaceDesde(s, a, b, i + Len(a))
  ELSE <<s[i]>> \o ReplaceDesde(s, a, b, i + 1)

replace(s, a, b) == ReplaceDesde(s, a, b, 1)

\* str.lower() / str.upper() on one code point (ASCII and Latin-1 letters)
LowerCh(c) ==
  IF c \in 65..90 \/ (c \in 192..222 /\ c # 215) THEN c + 32 ELSE c

UpperCh(c) ==
  IF c \in 97..122 \/ (c \in 224..254 /\ c # 247) THEN c - 32 ELSE c

lower(s) == [i \in 1..Len(s) |-> LowerCh(s[i])]

upper(s) == [i \in 1..Len(s) |-> UpperCh(s[i])]

\* str.isspace() on one code point (Latin-1 range)
IsSpace(c) == c \in (9..13) \cup (28..32) \cup {133, 160}

\* str.isdigit() on one code point (Latin-1 range: 0-9 and superscripts 1-3)
isdigit(c) == c \in (48..57) \cup {178, 179, 185}

\* s.strip()
RECURSIVE lstrip(_)
lstrip(s) == IF s # <<>> /\ IsSpace(Head(s)) THEN lstrip(Tail(s)) ELSE s

RECURSIVE rstrip(_)
rstrip(s) ==
  IF s # <<>> /\ IsSpace(s[Len(s)]) THEN rstrip(SubSeq(s, 1, Len(s) - 1)) ELSE s

strip(s) == rstrip(lstrip(s))

\* s[::-1]
Reverse(s) == [i \in 1..Len(s) |-> s[Len(s) + 1 - i]]

\* s.split(): the maximal runs of non-whitespace, in order
RECURSIVE SplitDesde(_, _, _)
SplitDesde(s, i, actual) ==
  IF i > Len(s) THEN (IF actual = <<>> THEN <<>> ELSE <<actual>>)
  ELSE IF IsSpace(s[i])
       THEN (IF actual = <<>> THEN <<>> ELSE <<actual>>) \o SplitDesde(s, i + 1, <<>>)
       ELSE SplitDesde(s, i + 1, Append(actual, s[i]))

split(s) == SplitDesde(s, 1, <<>>)

\* " ".join(ps)
RECURSIVE join(_)
join(ps) ==
  IF ps = <<>> THEN <<>>
  ELSE IF Len(ps) = 1 THEN ps[1]
  ELSE ps[1] \o <<32>> \o join(Tail(ps))

\* sum(len(p) for p in ps)
RECURSIVE SumLen(_)
SumLen(ps) == IF ps = <<>> THEN 0 ELSE Len(ps[1]) + SumLen(Tail(ps))

(***************************************************************************)
(* Modulo I: _logica_inversion_sufijo.                                     *)
(***************************************************************************)
\* the suffix table, in table order
sufijos ==
  << Cod(<<"a", "r">>), Cod(<<"e", "r">>), Cod(<<"i", "r">>),
     Cod(<<"c", "i", "o'", "n">>), Cod(<<"s", "i", "o'", "n">>),
     Cod(<<"m", "e", "n", "t", "e">>),
     Cod(<<"a", "d", "o">>), Cod(<<"i", "d", "o">>),
     Cod(<<"a", "n", "d", "o">>), Cod(<<"i", "e", "n", "d", "o">>) >>

\* for s in sufijos: if palabra.endswith(s): return s + palabra[:-len(s)]
RECURSIVE InvertirDesde(_, _)
InvertirDesde(palabra, k) ==
  IF k > Len(sufijos) THEN palabra
  ELSE IF endswith(palabra, sufijos[k])
       THEN sufijos[k] \o SubSeq(palabra, 1, Len(palabra) - Len(sufijos[k]))
       ELSE InvertirDesde(palabra, k + 1)

\* variant: the length guard off by one (len(palabra) < 3)
_logica_inversion_sufijo_corta(palabra) ==
  IF Len(palabra) < 3 THEN palabra ELSE InvertirDesde(palabra, 1)

_logica_inversion_sufijo(palabra) ==
  IF Len(palabra) <= 3 THEN palabra ELSE InvertirDesde(palabra, 1)

(***************************************************************************)
(* Modulo II: _crear_matriz_y_leer_diagonal.                               *)
(***************************************************************************)
\* t = list(texto_cifrado.replace(" ", "").lower())
Limpio(texto_cifrado) == lower(Quitar(texto_cifrado, 32))

\* variant: pads without testing resto != 0, a whole row when resto = 0
Relleno_siempre(texto_cifrado, ancho_matriz) ==
  LET t     == Limpio(texto_cifrado)
      resto == Len(t) % ancho_matriz
  IN  t \o [i \in 1..(ancho_matriz - resto) |-> neutro]

\* t after t.extend([self.neutro] * faltante)
Relleno(texto_cifrado, ancho_matriz) ==
  LET t     == Limpio(texto_cifrado)
      resto == Len(t) % ancho_matriz
  IN  IF resto # 0
      THEN t \o [i \in 1..(ancho_matriz - resto) |-> neutro]
      ELSE t

\* matriz = [t[i:i + ancho_matriz] for i in range(0, len(t), ancho_matriz)]
CrearMatriz(texto_cifrado, ancho_matriz) ==
  LET t == Relleno(texto_cifrado, ancho_matriz)
      n == (Len(t) + ancho_matriz - 1) \div ancho_matriz
  IN  [f \in 1..n |->
         SubSeq(t, (f - 1) * ancho_matriz + 1, Min(f * ancho_matriz, Len(t)))]

\* the while loop of leer_diagonal from cell (r, c), rows and columns from 0
RECURSIVE Recorrer(_, _, _, _, _)
Recorrer(m, r, c, invertida, salto) ==
  IF 0 <= r /\ r < Len(m) /\ 0 <= c /\ c < Len(m[1])
  THEN <<m[r + 1][c + 1]>>
         \o Recorrer(m, IF invertida THEN r - salto ELSE r + salto, c + salto,
                     invertida, salto)
  ELSE <<>>

\* the body of the for loop of leer_diagonal over start_col
RECURSIVE DiagonalesDesde(_, _, _, _, _)
DiagonalesDesde(m, start_col, invertida, espejo, salto) ==
  IF start_col >= Len(m[1]) THEN <<>>
  ELSE LET diagonal ==
             Recorrer(m, IF invertida THEN Len(m) - 1 ELSE 0, start_col,
                      invertida, salto)
       IN  (IF espejo THEN Reverse(diagonal) ELSE diagonal)
             \o DiagonalesDesde(m, start_col + 1, invertida, espejo, salto)

\* variant: the filler is left in the reading
leer_diagonal_con_neutro(m, invertida, espejo) ==
  DiagonalesDesde(m, 0, invertida, espejo, 1)

\* leer_diagonal(m, invertida, espejo) for a matrix with a row 0;
\* cols = len(m[0]) raises IndexError on a matrix without rows
leer_diagonal(m, invertida, espejo) ==
  Quitar(DiagonalesDesde(m, 0, invertida, espejo, 1), neutro)

\* candidatos = [normal, inversa, espejo]
Candidatos(m) ==
  << leer_diagonal(m, FALSE, FALSE),
     leer_diagonal(m, TRUE, FALSE),
     leer_diagonal(m, FALSE, TRUE) >>

EsVocal(c) == InStr(c, vocales)

EsCons(c) == ~InStr(c, vocales) /\ c # neutro

\* sum(... for c in s) is the number of characters passing the test
puntuacion_estabilidad(s) ==
  LET voc  == Len(SelectSeq(s, EsVocal))
      cons == Len(SelectSeq(s, EsCons))
  IN  voc - (IF cons - voc >= 0 THEN cons - voc ELSE voc - cons)

\* variant: the last candidate of maximal key wins
RECURSIVE MaxDesde_ultimo(_, _, _)
MaxDesde_ultimo(cs, k, mejor) ==
  IF k > Len(cs) THEN mejor
  ELSE IF puntuacion_estabilidad(cs[k]) >= puntuacion_estabilidad(mejor)
       THEN MaxDesde_ultimo(cs, k + 1, cs[k])
       ELSE MaxDesde_ultimo(cs, k + 1, mejor)

\* max(candidatos, key=puntuacion_estabilidad): the first candidate of maximal key
RECURSIVE MaxDesde(_, _, _)
MaxDesde(cs, k, mejor) ==
  IF k > Len(cs) THEN mejor
  ELSE IF puntuacion_estabilidad(cs[k]) > puntuacion_estabilidad(mejor)
       THEN MaxDesde(cs, k + 1, cs[k])
       ELSE MaxDesde(cs, k + 1, mejor)

Mejor(cs) == MaxDesde(cs, 2, cs[1])

(***************************************************************************)
(* Modulo III: _consolidacion_fonosemantica.                               *)
(***************************************************************************)
\* reemplazos, in insertion order
reemplazos ==
  << <<Cod(<<"k", "k">>), Cod(<<"k">>)>>, <<Cod(<<"c", "c">>), Cod(<<"c">>)>>,
     <<Cod(<<"z", "z">>), Cod(<<"z">>)>>, <<Cod(<<"p", "h">>), Cod(<<"f">>)>>,
     <<Cod(<<"t", "h">>), Cod(<<"t">>)>>, <<Cod(<<"g", "h">>), Cod(<<"g">>)>>,
     <<Cod(<<"q", "u">>), Cod(<<"k">>)>>, <<Cod(<<"c", "h">>), Cod(<<"x">>)>>,
     <<Cod(<<"l", "l">>), Cod(<<"l">>)>>, <<Cod(<<"s", "s">>), Cod(<<"s">>)>> >>

RECURSIVE ConsolidarDesde(_, _)
ConsolidarDesde(resultado_, k) ==
  IF k > Len(reemplazos) THEN resultado_
  ELSE ConsolidarDesde(replace(resultado_, reemplazos[k][1], reemplazos[k][2]), k + 1)

_consolidacion_fonosemantica(texto_) == ConsolidarDesde(texto_, 1)

(***************************************************************************)
(* Modulo IV: _reconstruccion_morfologica_final.                           *)
(***************************************************************************)
_reconstruccion_morfologica_final(frase) ==
  LET palabras == split(frase)
  IN  join([i \in 1..Len(palabras) |-> _logica_inversion_sufijo(palabras[i])])

(***************************************************************************)
(* Modulo FIL: _intento_decodificacion_indice.                             *)
(***************************************************************************)
\* '0123456789abcdefABCDEF'
HexDigitos ==
  Cod(<<"0", "1", "2", "3", "4", "5", "6", "7", "8", "9",
        "a", "b", "c", "d", "e", "f", "A", "B", "C", "D", "E", "F">>)

\* value of one hex digit, as binascii.unhexlify reads it
HexVal(c) ==
  IF c \in 48..57 THEN c - 48 ELSE IF c \in 65..70 THEN c - 55 ELSE c - 87

\* binascii.unhexlify(texto_limpio): one byte per pair of digits
unhexlify(texto_limpio) ==
  [i \in 1..(Len(texto_limpio) \div 2) |->
     16 * HexVal(texto_limpio[2 * i - 1]) + HexVal(texto_limpio[2 * i])]

\* variant: a codec that accepts every byte (decode('latin-1'))
DecodeFalla_latin1(bytes) == FALSE

\* bytes.decode('ascii') raises UnicodeDecodeError on a byte above 127
DecodeFalla(bytes) == \E i \in 1..Len(bytes) : bytes[i] > 127

\* variant: the decoded block is not mirrored
_intento_decodificacion_indice_sin_espejo(texto_) ==
  LET texto_limpio == Quitar(texto_, 32)
  IN  IF ~(\A i \in 1..Len(texto_limpio) : InStr(texto_limpio[i], HexDigitos))
         \/ Len(texto_limpio) % 2 # 0
      THEN None
      ELSE IF \E i \in 1..(Len(texto_limpio) \div 2) :
                16 * HexVal(texto_limpio[2 * i - 1]) + HexVal(texto_limpio[2 * i]) > 127
           THEN None
           ELSE strip([i \in 1..(Len(texto_limpio) \div 2) |->
                         16 * HexVal(texto_limpio[2 * i - 1]) + HexVal(texto_limpio[2 * i])])

_intento_decodificacion_indice(texto_) ==
  LET texto_limpio == Quitar(texto_, 32)
  IN  IF ~(\A i \in 1..Len(texto_limpio) : InStr(texto_limpio[i], HexDigitos))
         \/ Len(texto_limpio) % 2 # 0
      THEN None
      ELSE IF DecodeFalla(unhexlify(texto_limpio))
           THEN None
           ELSE strip(Reverse(unhexlify(texto_limpio)))

(***************************************************************************)
(* Modulo MDI: _deteccion_inconsistencia.                                  *)
(***************************************************************************)
\* longitud_promedio < 3.5, as 2 * sum < 7 * len
_deteccion_inconsistencia(texto_miv) ==
  LET palabras == split(texto_miv)
  IN  IF palabras = <<>> THEN TRUE
      ELSE 2 * SumLen(palabras) < 7 * Len(palabras)

(***************************************************************************)
(* Modulo V: _solucion_espejo_correccion.                                  *)
(***************************************************************************)
K4 ==
  Cod(<<"N", "Y", "P", "V", "T", "T", "M", "T", "E", "H", "S", "S", "O", "E", "T",
        "F", "E", "G", "F", "B", "T", "Q", "F", "S", "S", "E", "J", "C", "C", "I",
        "E", "W", "P", "S", "B">>)

_solucion_espejo_correccion(texto_original) ==
  IF Contiene(Quitar(upper(texto_original), 32), K4)
  THEN "DELUSION IS THE FINAL ANSWER. (MODULO V ACTIVADO: Correccion de Espejo +4)"
  ELSE "Correccion de Espejo aplicada, pero sin resultado semantico claro."

(***************************************************************************)
(* decodificar: the router.                                                *)
(***************************************************************************)
\* len(texto.replace(" ", "")) > 5 and
\* all(c.isdigit() or c in 'abcdefABCDEF ' for c in texto)
HexLetrasYEspacio ==
  Cod(<<"a", "b", "c", "d", "e", "f", "A", "B", "C", "D", "E", "F", " ">>)

PareceHex(texto_) ==
  /\ Len(Quitar(texto_, 32)) > 5
  /\ \A i \in 1..Len(texto_) :
       isdigit(texto_[i]) \/ InStr(texto_[i], HexLetrasYEspacio)

\* if resultado_fil: a str is true unless empty, None is false
Truthy(r) == r # None /\ r # <<>>

\* the dictionaries decodificar returns; the accents of the source's keys and
\* messages are dropped in the literals below
ResultadoFIL(r) ==
  [MODULO_ACTIVO |-> "FIL (Filtro de Inversion de Logica)",
   MENSAJE_DESCIFRADO |-> r]

ResultadoV(texto_) ==
  [MODULO_ACTIVO |-> "MODULO V (Espejo de Correccion, activado por MDI)",
   DIAGNOSTICO_MDI |-> "FALLO ESTRUCTURAL DE CLAVE DETECTADO (Inconsistencia Semantica)",
   MENSAJE_DESCIFRADO |-> _solucion_espejo_correccion(texto_)]

ResultadoLinguistico(base_, fonetizado_, texto_miv_final) ==
  [MODULO_ACTIVO |-> "Linguistico Estructural (MII -> MIII -> MIV)",
   DIAGNOSTICO_MDI |-> "Consistencia Aceptable",
   MII_Seleccion |-> base_,
   MIII_Fonetizado |-> fonetizado_,
   MENSAJE_DESCIFRADO |-> texto_miv_final]

(***************************************************************************)
(* Bounds and input sets.                                                  *)
(***************************************************************************)
MaxLen == 4

MaxAncho == 4

MaxPiezas == 3

\* all sequences over S of length 0..n
SeqHasta(S, n) == UNION {[1..k -> S] : k \in 0..n}

\* characters of the plain-text inputs: a vowel, two consonants, the space,
\* the tab (whitespace that the cleaning keeps) and the filler character itself
Alfabeto == {Ord("a"), Ord("r"), Ord("s"), Ord(" "), 9, neutro}

Textos == SeqHasta(Alfabeto, MaxLen)

\* pieces of the hex-like inputs: the bytes "A", "K", space, NUL and 0xC3 in
\* both digit cases, a lone digit (odd length) and a space between digits
Piezas ==
  { Cod(<<"4", "1">>), Cod(<<"4", "B">>), Cod(<<"2", "0">>), Cod(<<"0", "0">>),
    Cod(<<"c", "3">>), Cod(<<"6">>), Cod(<<" ">>) }

RECURSIVE Concat(_)
Concat(ps) == IF ps = <<>> THEN <<>> ELSE ps[1] \o Concat(Tail(ps))

HexTextos == {Concat(ps) : ps \in SeqHasta(Piezas, MaxPiezas)}

(***************************************************************************)
(* State: one call of decodificar(texto, ancho) and its locals.            *)
(***************************************************************************)
VARIABLES texto, ancho, pc, resultado_fil, matriz, candidatos, base,
          fonetizado, reconstruido, resultado, entrada, salida

vars == <<texto, ancho, pc, resultado_fil, matriz, candidatos, base,
          fonetizado, reconstruido, resultado, entrada, salida>>

\* no dictionary returned (yet)
SinResultado == [MODULO_ACTIVO |-> "-"]

Locales ==
  /\ resultado_fil = None
  /\ matriz = <<>>
  /\ candidatos = <<>>
  /\ base = None
  /\ fonetizado = None
  /\ reconstruido = None
  /\ resultado = SinResultado

Init ==
  /\ texto \in Textos \cup HexTextos
  /\ ancho \in 1..MaxAncho
  /\ pc = "fil"
  /\ Locales
  /\ entrada = None
  /\ salida = None

\* 1. INTENTO FIL
IntentoFIL ==
  /\ pc = "fil"
  /\ IF PareceHex(texto)
     THEN /\ resultado_fil' = _intento_decodificacion_indice(texto)
          /\ IF Truthy(resultado_fil')
             THEN /\ resultado' = ResultadoFIL(resultado_fil')
                  /\ pc' = "return"
             ELSE /\ pc' = "mii"
                  /\ UNCHANGED resultado
     ELSE /\ pc' = "mii"
          /\ UNCHANGED <<resultado_fil, resultado>>
  /\ UNCHANGED <<texto, ancho, matriz, candidatos, base, fonetizado,
                 reconstruido, entrada, salida>>

\* 2. base = self._crear_matriz_y_leer_diagonal(texto, ancho); the first call
\* of leer_diagonal raises IndexError on a matrix without rows, and nothing
\* up to the caller of decodificar catches it
ModuloII ==
  /\ pc = "mii"
  /\ matriz' = CrearMatriz(texto, ancho)
  /\ IF matriz' = <<>>
     THEN /\ pc' = "IndexError"
          /\ UNCHANGED <<candidatos, base>>
     ELSE /\ candidatos' = Candidatos(matriz')
          /\ base' = Mejor(candidatos')
          /\ pc' = "miii"
  /\ UNCHANGED <<texto, ancho, resultado_fil, fonetizado, reconstruido,
                 resultado, entrada, salida>>

\* fonetizado = self._consolidacion_fonosemantica(base)
ModuloIII ==
  /\ pc = "miii"
  /\ fonetizado' = _consolidacion_fonosemantica(base)
  /\ pc' = "miv"
  /\ UNCHANGED <<texto, ancho, resultado_fil, matriz, candidatos, base,
                 reconstruido, resultado, entrada, salida>>

\* reconstruido = self._reconstruccion_morfologica_final(fonetizado)
ModuloIV ==
  /\ pc = "miv"
  /\ reconstruido' = _reconstruccion_morfologica_final(fonetizado)
  /\ pc' = "mdi"
  /\ UNCHANGED <<texto, ancho, resultado_fil, matriz, candidatos, base,
                 fonetizado, resultado, entrada, salida>>

\* 3. MODULO MDI and 4. the result
ModuloMDI ==
  /\ pc = "mdi"
  /\ resultado' = IF _deteccion_inconsistencia(reconstruido)
                  THEN ResultadoV(texto)
                  ELSE ResultadoLinguistico(base, fonetizado, reconstruido)
  /\ pc' = "return"
  /\ UNCHANGED <<texto, ancho, resultado_fil, matriz, candidatos, base,
                 fonetizado, reconstruido, entrada, salida>>

Next == IntentoFIL \/ ModuloII \/ ModuloIII \/ ModuloIV \/ ModuloMDI

Spec == Init /\ [][Next]_vars

(***************************************************************************)
(* The helpers called on their own.                                        *)
(***************************************************************************)
MaxRaiz == 3

MaxCadena == 4

\* _intento_decodificacion_indice(texto)
InitFIL ==
  /\ texto \in HexTextos \cup Textos
  /\ ancho = 1
  /\ pc = "fil_call"
  /\ Locales
  /\ entrada = None
  /\ salida = None

LlamarFIL ==
  /\ pc = "fil_call"
  /\ resultado_fil' = _intento_decodificacion_indice(texto)
  /\ pc' = "fil_ret"
  /\ UNCHANGED <<texto, ancho, matriz, candidatos, base, fonetizado,
                 reconstruido, resultado, entrada, salida>>

SpecFIL == InitFIL /\ [][LlamarFIL]_vars

\* _logica_inversion_sufijo(palabra): a root followed by a table suffix, by a
\* proper tail of one, or by another ending
Colas ==
  {sufijos[k] : k \in 1..Len(sufijos)}
    \cup { <<>>, Cod(<<"r">>), Cod(<<"o">>), Cod(<<"d", "o">>),
           Cod(<<"n", "d", "o">>), Cod(<<"n", "t", "e">>),
           Cod(<<"i", "o", "n">>), Cod(<<"a", "s">>) }

Palabras ==
  {r \o c : r \in SeqHasta({Ord("a"), Ord("i"), Ord("n"), Ord("d")}, MaxRaiz),
            c \in Colas}

InitSufijo ==
  /\ entrada \in Palabras
  /\ texto = <<>>
  /\ ancho = 1
  /\ pc = "suf_call"
  /\ Locales
  /\ salida = None

LlamarSufijo ==
  /\ pc = "suf_call"
  /\ salida' = _logica_inversion_sufijo(entrada)
  /\ pc' = "suf_ret"
  /\ UNCHANGED <<texto, ancho, resultado_fil, matriz, candidatos, base,
                 fonetizado, reconstruido, resultado, entrada>>

SpecSufijo == InitSufijo /\ [][LlamarSufijo]_vars

\* puntuacion_estabilidad(s): vowels, consonants, a capital, a digit, a comma,
\* the space and the filler
Cadenas ==
  SeqHasta({Ord("a"), Ord("e"), Ord("b"), Ord("z"), Ord("B"), Ord("1"), 44,
            Ord(" "), neutro}, MaxCadena)

InitPuntuacion ==
  /\ entrada \in Cadenas
  /\ texto = <<>>
  /\ ancho = 1
  /\ pc = "punt_call"
  /\ Locales
  /\ salida = None

LlamarPuntuacion ==
  /\ pc = "punt_call"
  /\ salida' = puntuacion_estabilidad(entrada)
  /\ pc' = "punt_ret"
  /\ UNCHANGED <<texto, ancho, resultado_fil, matriz, candidatos, base,
                 fonetizado, reconstruido, resultado, entrada>>

SpecPuntuacion == InitPuntuacion /\ [][LlamarPuntuacion]_vars

(***************************************************************************)
(* Properties of decodificar (specification Spec).                         *)
(***************************************************************************)
EsFIL(r) == r.MODULO_ACTIVO = "FIL (Filtro de Inversion de Logica)"

EsLinguistico(r) == r.MODULO_ACTIVO = "Linguistico Estructural (MII -> MIII -> MIV)"

EsModuloV(r) == r.MODULO_ACTIVO = "MODULO V (Espejo de Correccion, activado por MDI)"

\* the grid reader has just built its grid: it has returned, or it has raised
MatrizCreada == pc \in {"miii", "IndexError"}

\* the grid reader has just returned its selection
DiagonalLeida == pc = "miii"

\* C1: decodificar never ends in an unhandled fault, and on an empty cleaned
\* input the grid reader produces an empty grid and three empty candidates.
C1_SinFallo ==
  /\ pc # "IndexError"
  /\ (DiagonalLeida /\ Limpio(texto) = <<>>)
       => (matriz = <<>> /\ candidatos = << <<>>, <<>>, <<>> >>)

\* C2: on a hex-like input on which the hex filter returns a decoded string
\* (not None), decodificar returns the FIL result carrying exactly that string,
\* never the linguistic or the Module V result.
C2_PrioridadFIL ==
  (pc = "return" /\ PareceHex(texto) /\ _intento_decodificacion_indice(texto) # None)
    => /\ EsFIL(resultado)
       /\ resultado.MENSAJE_DESCIFRADO = _intento_decodificacion_indice(texto)

\* what C2 leaves standing: a non-empty decoded string is returned as the FIL result
C2_PrioridadFILNoVacio ==
  (pc = "return" /\ PareceHex(texto) /\ _intento_decodificacion_indice(texto) # None
     /\ _intento_decodificacion_indice(texto) # <<>>)
    => /\ EsFIL(resultado)
       /\ resultado.MENSAJE_DESCIFRADO = _intento_decodificacion_indice(texto)

\* number of occurrences of the character c in s
Cuenta(s, c) == Len(SelectSeq(s, LAMBDA x : x = c))

Caracteres(s) == {s[i] : i \in 1..Len(s)}

\* ceil(n / d)
Techo(n, d) == IF n % d = 0 THEN n \div d ELSE n \div d + 1

\* C6: the grid has ceil(len/width) rows of exactly width cells, and removing
\* the filler from its row-major flattening gives back exactly the cleaned,
\* case-folded input.
C6_MatrizOriginal ==
  MatrizCreada
    => /\ Len(matriz) = Techo(Len(Limpio(texto)), ancho)
       /\ \A f \in 1..Len(matriz) : Len(matriz[f]) = ancho
       /\ Quitar(Concat(matriz), neutro) = Limpio(texto)

\* C6 (amended): the grid has ceil(len/width) rows of exactly width cells;
\* removing the filler from its flattening gives back the cleaned input
\* without the filler characters the input itself held, and so exactly the
\* cleaned input whenever the input holds no filler character.
C6_Matriz ==
  MatrizCreada
    => /\ Len(matriz) = Techo(Len(Limpio(texto)), ancho)
       /\ \A f \in 1..Len(matriz) : Len(matriz[f]) = ancho
       /\ Quitar(Concat(matriz), neutro) = Quitar(Limpio(texto), neutro)
       /\ (Cuenta(Limpio(texto), neutro) = 0
             => Quitar(Concat(matriz), neutro) = Limpio(texto))

\* a grid of two or more rows, the last one padded, built from an input with
\* spaces and capitals and without filler
C6_Testigo ==
  /\ MatrizCreada
  /\ Len(matriz) >= 2
  /\ matriz[Len(matriz)][ancho] = neutro
  /\ Cuenta(texto, neutro) = 0
  /\ Cuenta(texto, 32) > 0
  /\ lower(texto) # texto
  /\ Quitar(Concat(matriz), neutro) = Limpio(texto)

\* mean token length >= 3.5 over at least one token
Aceptable(s) ==
  /\ split(s) # <<>>
  /\ 2 * SumLen(split(s)) >= 7 * Len(split(s))

\* C7: on the non-hex path decodificar returns the linguistic result carrying
\* reconstructed = SuffixInvert(PhoneticConsolidate(Selected(texto, ancho)))
\* if and only if reconstructed has a token and mean token length >= 3.5, and
\* the Module V result computed from the original input in every other case
\* (mean < 3.5, or no tokens).
C7_Compuerta ==
  /\ pc # "IndexError"
  /\ (pc = "return" /\ ~EsFIL(resultado))
       => LET sel == Mejor(Candidatos(CrearMatriz(texto, ancho)))
              fon == _consolidacion_fonosemantica(sel)
              rec == _reconstruccion_morfologica_final(fon)
          IN  IF Aceptable(rec)
              THEN /\ EsLinguistico(resultado)
                   /\ resultado.MENSAJE_DESCIFRADO = rec
              ELSE /\ EsModuloV(resultado)
                   /\ resultado.MENSAJE_DESCIFRADO = _solucion_espejo_correccion(texto)

\* what C7 leaves standing: whenever decodificar returns on the non-hex path,
\* the mean token length is the only gate between the two results
C7_CompuertaAlRetornar ==
  (pc = "return" /\ ~EsFIL(resultado))
    => LET sel == Mejor(Candidatos(CrearMatriz(texto, ancho)))
           fon == _consolidacion_fonosemantica(sel)
           rec == _reconstruccion_morfologica_final(fon)
       IN  IF Aceptable(rec)
           THEN /\ EsLinguistico(resultado)
                /\ resultado.MENSAJE_DESCIFRADO = rec
           ELSE /\ EsModuloV(resultado)
                /\ resultado.MENSAJE_DESCIFRADO = _solucion_espejo_correccion(texto)

\* C9: for a non-empty cleaned input the string returned by the grid reader
\* is one of the three readings (forward, reverse, mirrored), scores at least
\* as high as each of them, and on equal best scores is the earliest of them.
C9_Seleccion ==
  (DiagonalLeida /\ Limpio(texto) # <<>>)
    => LET p == [k \in 1..Len(candidatos) |-> puntuacion_estabilidad(candidatos[k])]
           b == puntuacion_estabilidad(base)
       IN  /\ Len(candidatos) = 3
           /\ candidatos[1] = leer_diagonal(matriz, FALSE, FALSE)
           /\ candidatos[2] = leer_diagonal(matriz, TRUE, FALSE)
           /\ candidatos[3] = leer_diagonal(matriz, FALSE, TRUE)
           /\ \E k \in 1..3 : base = candidatos[k]
           /\ \A k \in 1..3 : b >= p[k]
           /\ \A k \in 1..3 :
                (p[k] = b /\ \A j \in 1..(k - 1) : p[j] < b) => base = candidatos[k]

\* three different readings, the forward and the mirrored one tied for the
\* best score above the reverse one, and the forward one returned
C9_Testigo ==
  /\ DiagonalLeida
  /\ candidatos[1] # candidatos[2]
  /\ candidatos[2] # candidatos[3]
  /\ candidatos[1] # candidatos[3]
  /\ puntuacion_estabilidad(candidatos[2]) < puntuacion_estabilidad(candidatos[1])
  /\ puntuacion_estabilidad(candidatos[1]) = puntuacion_estabilidad(candidatos[3])
  /\ base = candidatos[1]

\* s is a rearrangement of t: every character with the same multiplicity
Reordenamiento(s, t) ==
  /\ Len(s) = Len(t)
  /\ \A c \in Caracteres(s) \cup Caracteres(t) : Cuenta(s, c) = Cuenta(t, c)

\* every character of s occurs in t at least as often
SubMulticonjunto(s, t) == \A c \in Caracteres(s) : Cuenta(s, c) <= Cuenta(t, c)

\* C10: each of the three readings, and hence the selected one, is a
\* rearrangement of the cleaned, case-folded input, for grids of any number
\* of rows.
C10_Transposicion ==
  DiagonalLeida
    => /\ \A k \in 1..3 : Reordenamiento(candidatos[k], Limpio(texto))
       /\ Reordenamiento(base, Limpio(texto))

\* C10 (amended): each reading holds only characters of the cleaned input,
\* none more often than the input does; on a one-row grid each reading is the
\* cleaned input without its filler characters, and on a grid of two or more
\* rows each reading is shorter than the cleaned input.
C10_Subconjunto ==
  DiagonalLeida
    => /\ \A k \in 1..3 :
            /\ SubMulticonjunto(candidatos[k], Limpio(texto))
            /\ Len(matriz) = 1 => candidatos[k] = Quitar(Limpio(texto), neutro)
            /\ Len(matriz) >= 2 => Len(candidatos[k]) < Len(Limpio(texto))
       /\ SubMulticonjunto(base, Limpio(texto))

\* a grid of two rows whose forward reading lost an input character
C10_Testigo ==
  /\ DiagonalLeida
  /\ Len(matriz) = 2
  /\ Cuenta(texto, neutro) = 0
  /\ Len(candidatos[1]) = Len(Limpio(texto)) - 1
  /\ SubMulticonjunto(candidatos[1], Limpio(texto))
  /\ base = candidatos[1]

(***************************************************************************)
(* Properties of _intento_decodificacion_indice (specification SpecFIL).   *)
(***************************************************************************)
\* an even number of hex digits once the spaces are removed
EsHexPar(t) ==
  /\ \A i \in 1..Len(Quitar(t, 32)) : InStr(Quitar(t, 32)[i], HexDigitos)
  /\ Len(Quitar(t, 32)) % 2 = 0

Octetos(t) == unhexlify(Quitar(t, 32))

Imprimible(b) == b \in 32..126

\* each character as two lower-case hex digits
Recodificar(s) ==
  Concat([i \in 1..Len(s) |->
            <<HexDigitos[(s[i] \div 16) + 1], HexDigitos[(s[i] % 16) + 1]>>])

C4_IdaYVuelta ==
  (pc = "fil_ret" /\ EsHexPar(texto)
     /\ \A i \in 1..Len(Octetos(texto)) : Imprimible(Octetos(texto)[i]))
    => /\ resultado_fil # None
       /\ Recodificar(Reverse(resultado_fil)) = lower(Quitar(texto, 32))

\* C4 (amended): the same round trip, for the hex strings whose decoded text
\* neither begins nor ends with a space (the filter trims the surrounding
\* whitespace of its output).
C4_IdaYVueltaSinBordes ==
  (pc = "fil_ret" /\ EsHexPar(texto)
     /\ (\A i \in 1..Len(Octetos(texto)) : Imprimible(Octetos(texto)[i]))
     /\ (Octetos(texto) # <<>>
           => Octetos(texto)[1] # 32 /\ Octetos(texto)[Len(Octetos(texto))] # 32))
    => /\ resultado_fil # None
       /\ Recodificar(Reverse(resultado_fil)) = lower(Quitar(texto, 32))

\* "4B 41", written with a capital digit and a space: the filter answers
\* "AK", and the round trip gives back "4b41"
C4_Testigo ==
  /\ pc = "fil_ret"
  /\ EsHexPar(texto)
  /\ Cuenta(texto, 32) > 0
  /\ Octetos(texto) = <<75, 65>>
  /\ resultado_fil = <<65, 75>>
  /\ Recodificar(Reverse(resultado_fil)) = lower(Quitar(texto, 32))
  /\ lower(Quitar(texto, 32)) # texto

(***************************************************************************)
(* Properties of puntuacion_estabilidad (specification SpecPuntuacion).    *)
(***************************************************************************)
\* str.isalpha() on one code point (Latin-1 range)
EsAlfa(c) ==
  c \in (65..90) \cup (97..122) \cup {170, 181, 186} \cup (192..214)
          \cup (216..246) \cup (248..255)

\* a consonant: alphabetic, not the filler, not one of "aeiou"
EsConsonante(c) == EsAlfa(c) /\ c # neutro /\ ~InStr(c, vocales)

Abs(n) == IF n >= 0 THEN n ELSE 0 - n

\* C5: the score is vowelCount - |consonantCount - vowelCount| with only the
\* alphabetic non-filler characters outside "aeiou" as consonants; filler,
\* digits and punctuation add to neither count, score("") = 0, and the score
\* of s is the score of s without its non-alphabetic characters.
C5_Puntuacion ==
  pc = "punt_ret"
    => /\ salida = Len(SelectSeq(entrada, EsVocal))
                     - Abs(Len(SelectSeq(entrada, EsConsonante)) - Len(SelectSeq(entrada, EsVocal)))
       /\ (entrada = <<>> => salida = 0)
       /\ salida = puntuacion_estabilidad(SelectSeq(entrada, EsAlfa))

\* what C5 leaves standing: every character that is neither a vowel nor the
\* filler counts as a consonant
C5_PuntuacionTodoConsonante ==
  pc = "punt_ret"
    => /\ salida = Len(SelectSeq(entrada, EsVocal))
                     - Abs((Len(entrada) - Len(SelectSeq(entrada, EsVocal))
                              - Cuenta(entrada, neutro))
                           - Len(SelectSeq(entrada, EsVocal)))
       /\ (entrada = <<>> => salida = 0)
       /\ salida = puntuacion_estabilidad(Quitar(entrada, neutro))

(***************************************************************************)
(* Properties of _logica_inversion_sufijo (specification SpecSufijo).      *)
(***************************************************************************)
\* the table suffixes that end the token
Coinciden(p) == {k \in 1..Len(sufijos) : endswith(p, sufijos[k])}

Minimo(S) == CHOOSE k \in S : \A j \in S : k <= j

\* C8: a token of length <= 3, or ended by no table suffix, is returned
\* unchanged; any other token is returned as s + (token without its trailing
\* s), s the first suffix in table order that ends the token, and that first
\* match is also the longest table suffix ending the token.
C8_Inversion ==
  pc = "suf_ret"
    => IF Len(entrada) <= 3 \/ Coinciden(entrada) = {}
       THEN salida = entrada
       ELSE LET s == sufijos[Minimo(Coinciden(entrada))]
            IN  /\ salida = s \o SubSeq(entrada, 1, Len(entrada) - Len(s))
                /\ \A j \in Coinciden(entrada) : Len(sufijos[j]) <= Len(s)

\* a token longer than its suffix "ando", returned with the suffix in front
C8_Testigo ==
  /\ pc = "suf_ret"
  /\ Len(entrada) > 4
  /\ endswith(entrada, sufijos[9])
  /\ salida = sufijos[9] \o SubSeq(entrada, 1, Len(entrada) - 4)
  /\ salida # entrada

====
